---- MODULE Spec2Model ----
(***************************************************************************)
(* A model of src/selfeval.py: the heuristic code-quality scorer.          *)
(*                                                                         *)
(* run(params) is a pure function of its parameter bag, so the state       *)
(* machine is: Init draws one parameter bag from the bounded input sets,   *)
(* the action run applies the whole handler to it, and the state then      *)
(* holds what run returned and what it did on the way (the analyzers it    *)
(* invoked, the return statement it left through, the denominator          *)
(* max_possible it divided by).                                            *)
(*                                                                         *)
(* The code text is represented by the facts the analyzers read from it:   *)
(* one field per re.findall / str.count / "in" test / line loop of the     *)
(* source, holding what that expression evaluates to on the text.  The     *)
(* arithmetic, the thresholds, the caps, the message tiers and the control *)
(* flow of every function are those of the source.                         *)
(*                                                                         *)
(* percentage is the float (total_score / max_possible) * 100.  It is kept *)
(* as the exact fraction [num, den] in lowest terms; every comparison the  *)
(* source makes on it (>= 80, >= 60, >= 40) is made by cross               *)
(* multiplication.  The ratios that occur are k/(10 n) for small n, for    *)
(* which the float comparison and the exact one agree.                     *)
(***************************************************************************)
EXTENDS Integers, Sequences, FiniteSets, TLC

VARIABLES
    params,        \* the parameter bag handed to run: [code, criteria]
    pc,            \* "call" before run; afterwards the return statement taken
    result,        \* what run returned (RunResult), NoResult before
    calls,         \* the analyzers invoked, in order of invocation
    max_possible   \* evaluate_code's local max_possible when it returned

vars == <<params, pc, result, calls, max_possible>>

----------------------------------------------------------------------------
(* Bounds of the model.                                                    *)

\* Largest value of a match count drawn for a text (long lines, short
\* names, function names, nested loops, comprehensions, "with" occurrences,
\* docstrings, comment lines).
MaxCount == 4
\* Largest number of start-of-line assignments drawn for a text.
MaxGlobals == 6
\* Largest number of magic-number literals drawn for a text.
MaxMagic == 15
\* Largest number of "try:" and of "except" occurrences drawn for a text.
MaxBlocks == 2
\* Longest criteria list drawn.
MaxCriteria == 3

----------------------------------------------------------------------------
(* Criteria registry: src/selfeval.py lines 9-29.                          *)

CRITERIA_DESCRIPTIONS ==
    [c \in {"correctness", "efficiency", "readability", "maintainability",
            "documentation", "testability", "error_handling", "security",
            "modularity", "best_practices"} |->
       CASE c = "correctness"     -> "Code is free from syntax errors and logical bugs."
         [] c = "efficiency"      -> "Code uses efficient algorithms and data structures."
         [] c = "readability"     -> "Code is easy to read and understand."
         [] c = "maintainability" -> "Code is easy to maintain and extend."
         [] c = "documentation"   -> "Code is well-documented with clear explanations."
         [] c = "testability"     -> "Code is designed to be easily testable."
         [] c = "error_handling"  -> "Code handles errors and edge cases appropriately."
         [] c = "security"        -> "Code is secure and protects against common vulnerabilities."
         [] c = "modularity"      -> "Code is organized into reusable, well-defined modules."
         [] c = "best_practices"  -> "Code follows language-specific best practices."]

DEFAULT_CRITERIA ==
    <<"correctness", "efficiency", "readability", "documentation", "best_practices">>

----------------------------------------------------------------------------
(* Small helpers standing for Python built-ins.                            *)

Min(a, b) == IF a <= b THEN a ELSE b

Max(a, b) == IF a >= b THEN a ELSE b

Abs(a) == IF a < 0 THEN -a ELSE a

RECURSIVE GCD(_, _)
GCD(a, b) == IF b = 0 THEN a ELSE GCD(b, a % b)

\* The exact value of the float n / d (d > 0), in lowest terms.
Frac(n, d) ==
    LET g == GCD(Abs(n), d)
    IN  [num |-> n \div g, den |-> d \div g]

\* sep.join(seq)
RECURSIVE Join(_, _)
Join(sep, seq) ==
    IF seq = <<>> THEN ""
    ELSE IF Len(seq) = 1 THEN seq[1]
    ELSE seq[1] \o sep \o Join(sep, Tail(seq))

\* seq + [x] when cond (an "if cond: seq.append(x)")
AppendIf(cond, seq, x) == IF cond THEN Append(seq, x) ELSE seq

----------------------------------------------------------------------------
(* evaluate_syntactic_correctness: lines 41-49.  code.parse is what        *)
(* ast.parse(code) does on the text: it returns, raises SyntaxError (with  *)
(* lineno and msg) or raises another Exception (with its str()).           *)

evaluate_syntactic_correctness(code) ==
    CASE code.parse.outcome = "ok" ->
            [score |-> 10, message |-> "No syntax errors detected."]
      [] code.parse.outcome = "SyntaxError" ->
            [score |-> 0,
             message |-> "Syntax error at line " \o ToString(code.parse.lineno)
                         \o ": " \o code.parse.msg]
      [] OTHER ->
            [score |-> 2, message |-> "Error parsing code: " \o code.parse.msg]

----------------------------------------------------------------------------
(* evaluate_documentation: lines 51-76.                                    *)
(*   code.doc.docstrings    = len(re.findall(docstring_pattern, code))     *)
(*   code.doc.comment_lines = comment_count after the line loop            *)
(*   code.doc.code_lines    = code_lines after the line loop               *)
(* doc_ratio >= 0.3  is 10 * (d + c) >= 3 * max(1, l), and                 *)
(* doc_ratio >= 0.15 is 100 * (d + c) >= 15 * max(1, l).                   *)

evaluate_documentation(code) ==
    LET docstrings == code.doc.docstrings
        comment_count == code.doc.comment_lines
        code_lines == code.doc.code_lines
        numer == docstrings + comment_count
        denom == Max(1, code_lines)
    IN  IF 10 * numer >= 3 * denom /\ docstrings > 0
        THEN [score |-> 9, message |-> "Code is well-documented with clear explanations."]
        ELSE IF 100 * numer >= 15 * denom
        THEN [score |-> 6,
              message |-> "Code has adequate documentation but could be improved."]
        ELSE [score |-> 3, message |-> "Code lacks sufficient documentation."]

----------------------------------------------------------------------------
(* evaluate_efficiency: lines 78-110.                                      *)
(*   code.eff.has_incr       = "+= 1" in code                              *)
(*   code.eff.has_counter    = "counter" in code.lower()                   *)
(*   code.eff.range_len      = re.search(r"for\s+\w+\s+in\s+range\(len\(") *)
(*   code.eff.nested_loops   = nested_loop_count                           *)
(*   code.eff.comprehensions = comprehensions                              *)

EfficiencyMessage(score, issues) ==
    IF score >= 8
    THEN "Code appears to be efficient with good algorithmic choices."
    ELSE IF score >= 5
    THEN "Code has reasonable efficiency but could be improved. "
         \o (IF issues # <<>> THEN Join("\n", issues) ELSE "")
    ELSE "Code has potential efficiency issues: "
         \o (IF issues # <<>> THEN Join("\n", issues) ELSE "")

evaluate_efficiency(code) ==
    LET incr == code.eff.has_incr /\ ~code.eff.has_counter
        s1 == IF incr THEN 7 - 1 ELSE 7
        i1 == AppendIf(incr, <<>>,
                "Consider using more efficient increment methods where applicable")
        s2 == IF code.eff.range_len THEN s1 - 1 ELSE s1
        i2 == AppendIf(code.eff.range_len, i1,
                "Using range(len()) is less readable than direct iteration")
        nested_loop_count == code.eff.nested_loops
        s3 == IF nested_loop_count > 1 THEN s2 - Min(nested_loop_count, 3) ELSE s2
        i3 == AppendIf(nested_loop_count > 1, i2,
                "Found " \o ToString(nested_loop_count)
                \o " nested loops; consider optimizing if processing large data")
        comprehensions == code.eff.comprehensions
        s4 == IF comprehensions > 0 THEN s3 + Min(comprehensions, 2) ELSE s3
    IN  [score |-> s4, message |-> EfficiencyMessage(s4, i3)]

----------------------------------------------------------------------------
(* evaluate_readability: lines 112-160.                                    *)
(*   code.read.long_lines     = long_lines after the line loop             *)
(*   code.read.short_vars     = len(short_vars)                            *)
(*   code.read.non_snake_case = len(non_snake_case)                        *)
(*   code.read.line_starts    = the lines of the text that begin with zero *)
(*       or more spaces followed by a non-space character, in order, each  *)
(*       with the offset of its first character in the text and the number *)
(*       of its leading spaces                                             *)

\* re.MULTILINE as the integer Pattern.finditer receives it.
RE_MULTILINE == 8

\* Pattern.finditer(code, pos) for the pattern ^( *)\S : the matches whose
\* start is at or after pos.  Without the MULTILINE flag "^" matches at
\* offset 0 of the text only; with it, at the start of every line.
PatternFinditer(code, pos, multiline) ==
    SelectSeq(code.read.line_starts,
              LAMBDA l : l.offset >= pos /\ (multiline \/ l.offset = 0))

\* A slip one could make here: the call as it was meant, with the flag taken
\* as a flag (re.finditer(pattern, code, re.MULTILINE)).
IndentMatchesAsFlag(code) == PatternFinditer(code, 0, TRUE)

\* Line 147-148: indent_pattern is compiled without flags, and
\* indent_pattern.finditer(code, re.MULTILINE) passes re.MULTILINE as pos.
IndentMatches(code) == PatternFinditer(code, RE_MULTILINE, FALSE)

\* Line 148: [len(m.group(1)) for m in ... if m.group(1)]
Indents(code) ==
    LET ms == SelectSeq(IndentMatches(code), LAMBDA l : l.width > 0)
    IN  [k \in 1..Len(ms) |-> ms[k].width]

ReadabilityMessage(score, issues) ==
    IF score >= 8
    THEN "Code is very readable with good naming and formatting."
    ELSE IF score >= 5
    THEN "Code has reasonable readability but could be improved. "
         \o (IF issues # <<>> THEN Join("\n", issues) ELSE "")
    ELSE "Code has readability issues: "
         \o (IF issues # <<>> THEN Join("\n", issues) ELSE "")

\* A slip one could make at line 134: the short-name adjustment added.
ShortNamePenaltyAdded(score, short_vars) == score + Min(short_vars, 2)

\* Line 134: score -= min(len(short_vars), 2)
ShortNamePenalty(score, short_vars) == score - Min(short_vars, 2)

evaluate_readability(code) ==
    LET long_lines == code.read.long_lines
        s1 == IF long_lines > 0 THEN 7 - Min(long_lines, 3) ELSE 7
        i1 == AppendIf(long_lines > 0, <<>>,
                "Found " \o ToString(long_lines)
                \o " lines exceeding recommended length")
        short_vars == code.read.short_vars
        s2 == IF short_vars > 0 THEN ShortNamePenalty(s1, short_vars) ELSE s1
        i2 == AppendIf(short_vars > 0, i1,
                "Found " \o ToString(short_vars)
                \o " variables with overly short names")
        non_snake_case == code.read.non_snake_case
        s3 == IF non_snake_case > 0 THEN s2 - Min(non_snake_case, 2) ELSE s2
        i3 == AppendIf(non_snake_case > 0, i2,
                "Found " \o ToString(non_snake_case)
                \o " function names not using snake_case")
        indents == Indents(code)
        inconsistent_indent ==
            indents # <<>> /\ \E k \in 1..Len(indents) : indents[k] % 4 # 0
        s4 == IF inconsistent_indent THEN s3 - 2 ELSE s3
    IN  [score |-> s4, message |-> ReadabilityMessage(s4, i3)]

----------------------------------------------------------------------------
(* evaluate_best_practices: lines 162-204.                                 *)
(*   code.bp.global_vars   = len(global_vars)                              *)
(*   code.bp.magic_numbers = len(magic_numbers)                            *)
(*   code.bp.try_blocks    = code.count("try:")                            *)
(*   code.bp.except_blocks = code.count("except")                          *)
(*   code.bp.bare_except   = "except:" in code                             *)
(*   code.bp.with_count    = code.count("with")                            *)

BestPracticesMessage(score, issues, positives) ==
    IF score >= 8
    THEN "Code follows best practices well. " \o Join(", ", positives)
    ELSE IF score >= 5
    THEN "Code follows most best practices but has some issues. "
         \o Join(", ", issues)
    ELSE "Code has several best practice issues: " \o Join(", ", issues)

\* A slip one could make at line 195: the bonus left uncapped.
WithBonusUncapped(with_count) == with_count

\* Line 195: min(with_count, 2)
WithBonus(with_count) == Min(with_count, 2)

evaluate_best_practices(code) ==
    LET global_vars == code.bp.global_vars
        s1 == IF global_vars > 3 THEN 7 - Min(global_vars - 3, 2) ELSE 7
        i1 == AppendIf(global_vars > 3, <<>>,
                "Uses " \o ToString(global_vars) \o " global variables")
        magic_numbers == code.bp.magic_numbers
        s2 == IF magic_numbers > 5 THEN s1 - Min(magic_numbers \div 5, 2) ELSE s1
        i2 == AppendIf(magic_numbers > 5, i1,
                "Contains " \o ToString(magic_numbers)
                \o " magic numbers that should be constants")
        try_blocks == code.bp.try_blocks
        except_blocks == code.bp.except_blocks
        proper == try_blocks > 0 /\ try_blocks = except_blocks /\ ~code.bp.bare_except
        bare == ~proper /\ code.bp.bare_except
        s3 == IF proper THEN s2 + 1 ELSE IF bare THEN s2 - 1 ELSE s2
        p3 == AppendIf(proper, <<>>, "Uses proper exception handling")
        i3 == AppendIf(bare, i2,
                "Uses bare except clauses without specifying exception types")
        with_count == code.bp.with_count
        s4 == IF with_count > 0 THEN s3 + WithBonus(with_count) ELSE s3
        p4 == AppendIf(with_count > 0, p3,
                "Uses context managers (" \o ToString(with_count)
                \o " with statements)")
    IN  [score |-> s4, message |-> BestPracticesMessage(s4, i3, p4)]

----------------------------------------------------------------------------
(* evaluate_code: lines 206-293.                                           *)
(* criteria is [absent, list]: absent stands for None.  The results dict   *)
(* is a sequence of entries in insertion order; assigning to a key that    *)
(* is present replaces its entry in place, as a Python dict does.          *)

InSeq(x, seq) == \E k \in 1..Len(seq) : seq[k] = x

HasKey(results, key) == \E k \in 1..Len(results) : results[k].name = key

\* results[key] = {"score": score, "max_score": 10, "message": message}
DictSet(results, key, score, message) ==
    LET entry == [name |-> key, score |-> score, max_score |-> 10,
                  message |-> message]
    IN  IF HasKey(results, key)
        THEN [k \in 1..Len(results) |->
                 IF results[k].name = key THEN entry ELSE results[k]]
        ELSE Append(results, entry)

\* Python truthiness of the criteria argument: None and [] are falsy.
CriteriaGiven(criteria) == ~criteria.absent /\ criteria.list # <<>>

\* Lines 208-209.
EffectiveCriteria(criteria) ==
    IF ~CriteriaGiven(criteria) THEN DEFAULT_CRITERIA ELSE criteria.list

\* A slip one could make at line 216: the filter left out.
ValidCriteriaUnfiltered(criteria) == EffectiveCriteria(criteria)

\* Line 216: [c for c in criteria if c in CRITERIA_DESCRIPTIONS]
ValidCriteria(criteria) ==
    SelectSeq(EffectiveCriteria(criteria),
              LAMBDA c : c \in DOMAIN CRITERIA_DESCRIPTIONS)

\* A slip one could make at line 230: only a score of 0 taken as broken.
SyntaxBrokenOnlyZero(score) == score < 1

\* Line 230: if score < 3
SyntaxBroken(score) == score < 3

\* Lines 231-237: stamp every other valid criterion not yet in results.
RECURSIVE StampNotEvaluated(_, _, _)
StampNotEvaluated(valid_criteria, k, results) ==
    IF k > Len(valid_criteria) THEN results
    ELSE LET c == valid_criteria[k]
         IN  StampNotEvaluated(valid_criteria, k + 1,
                 IF c # "correctness" /\ ~HasKey(results, c)
                 THEN DictSet(results, c, 0, "Not evaluated due to syntax errors")
                 ELSE results)

\* A slip one could make at lines 241/275: floor division for the ratio.
PercentageFloorDiv(total_score, maxp) ==
    IF maxp > 0 THEN Frac((total_score \div maxp) * 100, 1) ELSE Frac(0, 1)

\* Lines 241 and 275: (total_score / max_possible) * 100 if max_possible > 0 else 0
Percentage(total_score, maxp) ==
    IF maxp > 0 THEN Frac(total_score * 100, maxp) ELSE Frac(0, 1)

\* percentage >= n for an integer n
PctAtLeast(percentage, n) == percentage.num >= n * percentage.den

\* A slip one could make at lines 278-285: the tiers tested with > .
SummaryStrict(percentage) ==
    IF ~PctAtLeast(percentage, 80) \/ percentage = Frac(80, 1)
    THEN IF PctAtLeast(percentage, 60) /\ percentage # Frac(60, 1)
         THEN "Solid code with some areas for improvement."
         ELSE IF PctAtLeast(percentage, 40) /\ percentage # Frac(40, 1)
         THEN "Code needs improvement in several key areas."
         ELSE "Code has significant issues that should be addressed."
    ELSE "High-quality code that follows good practices in most areas."

\* Lines 278-285.
Summary(percentage) ==
    IF PctAtLeast(percentage, 80)
    THEN "High-quality code that follows good practices in most areas."
    ELSE IF PctAtLeast(percentage, 60)
    THEN "Solid code with some areas for improvement."
    ELSE IF PctAtLeast(percentage, 40)
    THEN "Code needs improvement in several key areas."
    ELSE "Code has significant issues that should be addressed."

\* A slip one could make at line 262: another neutral score.
PlaceholderZero(criterion) ==
    [score |-> 0,
     message |-> "Basic " \o criterion
                 \o " check - detailed evaluation not implemented yet."]

\* Lines 259-263.
Placeholder(criterion) ==
    [score |-> 5,
     message |-> "Basic " \o criterion
                 \o " check - detailed evaluation not implemented yet."]

\* Lines 251-263: the analyzer a criterion is dispatched to ("" for none).
AnalyzerOf(criterion) ==
    CASE criterion = "documentation"  -> "evaluate_documentation"
      [] criterion = "efficiency"     -> "evaluate_efficiency"
      [] criterion = "readability"    -> "evaluate_readability"
      [] criterion = "best_practices" -> "evaluate_best_practices"
      [] OTHER -> ""

\* Lines 251-263: score, message of one criterion.
Evaluate(code, criterion) ==
    CASE criterion = "documentation"  -> evaluate_documentation(code)
      [] criterion = "efficiency"     -> evaluate_efficiency(code)
      [] criterion = "readability"    -> evaluate_readability(code)
      [] criterion = "best_practices" -> evaluate_best_practices(code)
      [] OTHER -> Placeholder(criterion)

\* Lines 247-272: the loop over valid_criteria from its k-th element, on
\* the locals st = [results, total_score, max_possible, calls].
RECURSIVE ProcessCriteria(_, _, _, _)
ProcessCriteria(code, valid_criteria, k, st) ==
    IF k > Len(valid_criteria) THEN st
    ELSE LET criterion == valid_criteria[k]
         IN  IF criterion = "correctness" /\ HasKey(st.results, "correctness")
             THEN ProcessCriteria(code, valid_criteria, k + 1, st)
             ELSE LET r == Evaluate(code, criterion)
                  IN  ProcessCriteria(code, valid_criteria, k + 1,
                        [results |-> DictSet(st.results, criterion, r.score, r.message),
                         total_score |-> st.total_score + r.score,
                         max_possible |-> st.max_possible + 10,
                         calls |-> AppendIf(AnalyzerOf(criterion) # "", st.calls,
                                            AnalyzerOf(criterion))])

\* evaluate_code(code, criteria): the report it returns, with the return
\* statement it left through, its local max_possible and the analyzers it
\* invoked.
evaluate_code(code, criteria) ==
    LET valid_criteria == ValidCriteria(criteria)
        checked == InSeq("correctness", valid_criteria)
        syn == evaluate_syntactic_correctness(code)
        st0 == [results |-> <<>>, total_score |-> 0, max_possible |-> 0,
                calls |-> <<>>]
        st1 == IF checked
               THEN [results |-> DictSet(st0.results, "correctness",
                                         syn.score, syn.message),
                     total_score |-> st0.total_score + syn.score,
                     max_possible |-> st0.max_possible + 10,
                     calls |-> <<"evaluate_syntactic_correctness">>]
               ELSE st0
    IN  IF checked /\ SyntaxBroken(syn.score)
        THEN [exit |-> "return_short_circuit",
              max_possible |-> st1.max_possible,
              calls |-> st1.calls,
              report |->
                [total_score |-> st1.total_score,
                 max_score |-> Len(valid_criteria) * 10,
                 percentage |-> Percentage(st1.total_score, st1.max_possible),
                 criteria_results |-> StampNotEvaluated(valid_criteria, 1, st1.results),
                 summary |-> "Code has syntax errors that need to be fixed before other aspects can be evaluated."]]
        ELSE LET st == ProcessCriteria(code, valid_criteria, 1, st1)
                 percentage == Percentage(st.total_score, st.max_possible)
             IN  [exit |-> "return_full",
                  max_possible |-> st.max_possible,
                  calls |-> st.calls,
                  report |->
                    [total_score |-> st.total_score,
                     max_score |-> st.max_possible,
                     percentage |-> percentage,
                     criteria_results |-> st.results,
                     summary |-> Summary(percentage)]]

----------------------------------------------------------------------------
(* run: lines 295-312.  code.present tells what params.get("code", "")     *)
(* yields: "missing" (no key: the default ""), "empty" ("") or "text".     *)

\* A slip one could make at line 300: only a missing key refused.
CodeGivenUnlessMissing(code) == code.present # "missing"

\* Line 300: the truthiness of code ("if not code")
CodeGiven(code) == code.present = "text"

NoResult == [status |-> "none"]

run ==
    /\ pc = "call"
    /\ IF ~CodeGiven(params.code)
       THEN /\ result' = [error |-> "Missing code parameter", status |-> "failed"]
            /\ pc' = "return_missing"
            /\ calls' = <<>>
            /\ max_possible' = 0
       ELSE LET ev == evaluate_code(params.code, params.criteria)
            IN  /\ result' = [evaluation |-> ev.report, status |-> "success"]
                /\ pc' = ev.exit
                /\ calls' = ev.calls
                /\ max_possible' = ev.max_possible
    /\ UNCHANGED params

----------------------------------------------------------------------------
(* The inputs.                                                             *)

\* What ast.parse can do on a text.
ParseOutcomes ==
    {[outcome |-> "ok", lineno |-> 0, msg |-> ""],
     [outcome |-> "SyntaxError", lineno |-> 1, msg |-> "'(' was never closed"],
     [outcome |-> "Exception", lineno |-> 0,
      msg |-> "maximum recursion depth exceeded during ast construction"]}

ParsesOk == [outcome |-> "ok", lineno |-> 0, msg |-> ""]

\* The facts evaluate_documentation reads.  code_lines ranges further than
\* the other counts so that a ratio below 0.15 occurs beside a docstring.
DocFacts ==
    [docstrings : 0..MaxCount, comment_lines : 0..MaxCount,
     code_lines : 0..(2 * MaxCount + 1)]

\* The facts evaluate_efficiency reads.
EffFacts ==
    [has_incr : BOOLEAN, has_counter : BOOLEAN, range_len : BOOLEAN,
     nested_loops : 0..MaxCount, comprehensions : 0..MaxCount]

\* Leading-space widths drawn for a line: none, a half step, a full step.
IndentWidths == {0, 2, 4}

\* Offsets drawn for a second line: one before offset 8, one after it.
SecondLineOffsets == {5, 12}

\* The lines of a text that start with spaces and a non-space character:
\* none, the first line alone (at offset 0), or the first and a second one.
LineStartLayouts ==
    {<<>>}
    \cup {<<[offset |-> 0, width |-> w]>> : w \in IndentWidths}
    \cup {<<[offset |-> 0, width |-> w1], [offset |-> o, width |-> w2]>> :
            w1 \in IndentWidths, o \in SecondLineOffsets, w2 \in IndentWidths}

\* The facts evaluate_readability reads.
ReadFacts ==
    [long_lines : 0..MaxCount, short_vars : 0..MaxCount,
     non_snake_case : 0..MaxCount, line_starts : LineStartLayouts]

\* The facts evaluate_best_practices reads.  A text holding "except:" holds
\* "except" at least once.
BpFacts ==
    {b \in [global_vars : 0..MaxGlobals, magic_numbers : 0..MaxMagic,
            try_blocks : 0..MaxBlocks, except_blocks : 0..MaxBlocks,
            bare_except : BOOLEAN, with_count : 0..MaxCount] :
        b.bare_except => b.except_blocks >= 1}

\* Three texts seen by each analyzer: a plain one (nothing matched), a tidy
\* one and a messy one.
PlainDoc == [docstrings |-> 0, comment_lines |-> 0, code_lines |-> 1]
TidyDoc == [docstrings |-> 1, comment_lines |-> 1, code_lines |-> 2]
MessyDoc == [docstrings |-> 0, comment_lines |-> 1, code_lines |-> 5]

PlainEff ==
    [has_incr |-> FALSE, has_counter |-> FALSE, range_len |-> FALSE,
     nested_loops |-> 0, comprehensions |-> 0]
TidyEff == [PlainEff EXCEPT !.comprehensions = 2]
MessyEff ==
    [has_incr |-> TRUE, has_counter |-> FALSE, range_len |-> TRUE,
     nested_loops |-> 3, comprehensions |-> 0]

PlainRead ==
    [long_lines |-> 0, short_vars |-> 0, non_snake_case |-> 0,
     line_starts |-> <<[offset |-> 0, width |-> 0]>>]
TidyRead ==
    [PlainRead EXCEPT !.line_starts =
        <<[offset |-> 0, width |-> 0], [offset |-> 12, width |-> 4]>>]
MessyRead ==
    [long_lines |-> 3, short_vars |-> 2, non_snake_case |-> 2,
     line_starts |-> <<[offset |-> 0, width |-> 0], [offset |-> 12, width |-> 2]>>]

PlainBp ==
    [global_vars |-> 0, magic_numbers |-> 0, try_blocks |-> 0,
     except_blocks |-> 0, bare_except |-> FALSE, with_count |-> 0]
TidyBp == [PlainBp EXCEPT !.try_blocks = 1, !.except_blocks = 1, !.with_count = 2]
MessyBp ==
    [global_vars |-> 5, magic_numbers |-> 10, try_blocks |-> 1,
     except_blocks |-> 1, bare_except |-> TRUE, with_count |-> 0]

Text(parse, doc, eff, read, bp) ==
    [present |-> "text", parse |-> parse, doc |-> doc, eff |-> eff,
     read |-> read, bp |-> bp]

PlainText == Text(ParsesOk, PlainDoc, PlainEff, PlainRead, PlainBp)

\* No "code" key in params, and "code": "".
NoCode == {[PlainText EXCEPT !.present = p] : p \in {"missing", "empty"}}

\* The plain text under every outcome of the parser, and the texts that
\* show each analyzer its tidy or its messy face, under every outcome too.
ProfileTexts ==
    {Text(p, PlainDoc, PlainEff, PlainRead, PlainBp) : p \in ParseOutcomes}
    \cup {Text(p, d, e, r, b) :
            p \in ParseOutcomes,
            d \in {TidyDoc, MessyDoc},
            e \in {TidyEff, MessyEff},
            r \in {TidyRead, MessyRead},
            b \in {TidyBp, MessyBp}}

\* The names criteria lists are drawn from: the five criteria with an
\* analyzer, one registry criterion without, and one name not in the registry.
CriteriaNames ==
    {"correctness", "efficiency", "readability", "documentation",
     "best_practices", "security", "performance"}

RECURSIVE SeqsUpTo(_, _)
SeqsUpTo(S, n) ==
    IF n = 0 THEN {<<>>}
    ELSE LET shorter == SeqsUpTo(S, n - 1)
         IN  shorter \cup {Append(q, x) : q \in shorter, x \in S}

NoCriteria == [absent |-> TRUE, list |-> <<>>]

Given(list) == [absent |-> FALSE, list |-> list]

\* None, and every list of at most MaxCriteria names.
CriteriaArgs == {NoCriteria} \cup {Given(l) : l \in SeqsUpTo(CriteriaNames, MaxCriteria)}

----------------------------------------------------------------------------
(* The specification.                                                      *)

\* The parameter bags: every criteria argument on the profile texts and on
\* a missing or empty code; each analyzer's texts under the default
\* criteria and under that analyzer's criterion alone.
InitParams ==
    \/ \E c \in ProfileTexts \cup NoCode, a \in CriteriaArgs :
          params = [code |-> c, criteria |-> a]
    \/ \E d \in DocFacts, a \in {NoCriteria, Given(<<"documentation">>)} :
          params = [code |-> Text(ParsesOk, d, PlainEff, PlainRead, PlainBp),
                    criteria |-> a]
    \/ \E e \in EffFacts, a \in {NoCriteria, Given(<<"efficiency">>)} :
          params = [code |-> Text(ParsesOk, PlainDoc, e, PlainRead, PlainBp),
                    criteria |-> a]
    \/ \E r \in ReadFacts, a \in {NoCriteria, Given(<<"readability">>)} :
          params = [code |-> Text(ParsesOk, PlainDoc, PlainEff, r, PlainBp),
                    criteria |-> a]
    \/ \E b \in BpFacts, a \in {NoCriteria, Given(<<"best_practices">>)} :
          params = [code |-> Text(ParsesOk, PlainDoc, PlainEff, PlainRead, b),
                    criteria |-> a]

Init ==
    /\ InitParams
    /\ pc = "call"
    /\ result = NoResult
    /\ calls = <<>>
    /\ max_possible = 0

Next == run

Spec == Init /\ [][Next]_vars

----------------------------------------------------------------------------
(* What the properties below speak of.                                     *)

Returned == pc # "call"

Succeeded == Returned /\ result.status = "success"

\* The names requested: the list given, or the default list for None or [].
Requested ==
    IF params.criteria.absent \/ params.criteria.list = <<>>
    THEN <<"correctness", "efficiency", "readability", "documentation",
           "best_practices">>
    ELSE params.criteria.list

RegistryNames ==
    {"correctness", "efficiency", "readability", "maintainability",
     "documentation", "testability", "error_handling", "security",
     "modularity", "best_practices"}

NamesWithoutAnalyzer ==
    {"maintainability", "testability", "error_handling", "security", "modularity"}

\* The requested names that are in the registry, repeats kept.
RequestedValid == SelectSeq(Requested, LAMBDA c : c \in RegistryNames)

\* seq without the later occurrences of each element
RECURSIVE Dedup(_)
Dedup(seq) ==
    IF seq = <<>> THEN <<>>
    ELSE LET front == Dedup(SubSeq(seq, 1, Len(seq) - 1))
             last == seq[Len(seq)]
         IN  IF InSeq(last, front) THEN front ELSE Append(front, last)

Entries == result.evaluation.criteria_results

Keys == [k \in 1..Len(Entries) |-> Entries[k].name]

EntryOf(name) == CHOOSE e \in {Entries[k] : k \in 1..Len(Entries)} : e.name = name

Pct == result.evaluation.percentage

----------------------------------------------------------------------------
(* C1.  When correctness is requested and the Syntax Analyzer scores below *)
(* 3, every other requested registry criterion is in the report with score *)
(* 0 and the message "Not evaluated due to syntax errors", no analyzer but *)
(* the Syntax Analyzer ran, max_score is 10 times the number N of          *)
(* requested names that are in the registry (each occurrence in the list   *)
(* counted), and percentage is the correctness score / 10 * 100.           *)
C1_ShortCircuit ==
    (Succeeded /\ InSeq("correctness", Requested)
       /\ EntryOf("correctness").score < 3)
    => /\ \A k \in 1..Len(RequestedValid) : HasKey(Entries, RequestedValid[k])
       /\ \A k \in 1..Len(Entries) :
             Entries[k].name # "correctness"
             => /\ Entries[k].score = 0
                /\ Entries[k].message = "Not evaluated due to syntax errors"
       /\ calls = <<"evaluate_syntactic_correctness">>
       /\ result.evaluation.max_score = 10 * Len(RequestedValid)
       /\ Pct = Frac(EntryOf("correctness").score * 100, 10)

\* A parser-internal error (score 2) on a list that names correctness last
\* and a second criterion before it.
C1_Witness ==
    /\ pc = "return_short_circuit"
    /\ EntryOf("correctness").score = 2
    /\ Len(params.criteria.list) >= 2
    /\ params.criteria.list[1] = "readability"
    /\ Pct = Frac(20, 1)

(* C2.  The percentage of every report lies in [0, 100].                   *)
C2_PercentageInRange ==
    Succeeded => /\ Pct.num >= 0
                 /\ Pct.num <= 100 * Pct.den

\* Readability alone, at its lowest score, gives the lowest percentage.
C2_Witness ==
    /\ pc = "return_full"
    /\ Keys = <<"readability">>
    /\ result.evaluation.total_score = 0
    /\ Pct = Frac(0, 1)
    /\ \E k \in 1..Len(params.code.read.line_starts) :
          params.code.read.line_starts[k].width % 4 # 0

(* C3.  Every entry of criteria_results has a score in 0..10 and max_score *)
(* 10, whichever analyzer, placeholder or stamp produced it.               *)
C3_ScoresInRange ==
    Succeeded => \A k \in 1..Len(Entries) :
                    /\ Entries[k].score \in 0..10
                    /\ Entries[k].max_score = 10

\* Both ends of the range in one report.
C3_Witness ==
    /\ pc = "return_full"
    /\ HasKey(Entries, "readability") /\ EntryOf("readability").score = 0
    /\ HasKey(Entries, "best_practices") /\ EntryOf("best_practices").score = 10

(* C4.  A criterion named more than once is evaluated once, its later      *)
(* occurrences being no-ops: the report equals the report for the same     *)
(* list with the later duplicates removed.                                 *)
C4_DuplicatesAreNoOps ==
    (Succeeded /\ ~params.criteria.absent)
    => result.evaluation
         = evaluate_code(params.code, Given(Dedup(params.criteria.list))).report

(* C5.  The keys of criteria_results are exactly the requested names that  *)
(* are in the registry: "correctness" first if requested, then the others  *)
(* in their input order (first occurrences); no other name appears.        *)
C5_ExpectedKeys ==
    LET d == Dedup(RequestedValid)
    IN  IF InSeq("correctness", d)
        THEN <<"correctness">> \o SelectSeq(d, LAMBDA c : c # "correctness")
        ELSE d

C5_KeysInOrder == Succeeded => Keys = C5_ExpectedKeys

\* A name outside the registry first, correctness last.
C5_Witness ==
    /\ pc = "return_full"
    /\ params.criteria.list = <<"performance", "readability", "correctness">>
    /\ Keys = <<"correctness", "readability">>

(* C6.  run returns {error: "Missing code parameter", status: "failed"}    *)
(* and invokes no analyzer when code is missing or empty; otherwise it     *)
(* returns {evaluation: evaluate_code(code, criteria), status: "success"}. *)
C6_RunContract ==
    Returned =>
      IF params.code.present \in {"missing", "empty"}
      THEN /\ result = [error |-> "Missing code parameter", status |-> "failed"]
           /\ calls = <<>>
      ELSE /\ result.status = "success"
           /\ result = [evaluation |->
                          evaluate_code(params.code, params.criteria).report,
                        status |-> "success"]

\* "code": "" with a criteria list.
C6_Witness ==
    /\ pc = "return_missing"
    /\ params.code.present = "empty"
    /\ params.criteria.list = <<"correctness">>
    /\ result.status = "failed"

(* C7, as claimed.  percentage is 0 exactly when the denominator           *)
(* max_possible is 0.                                                      *)
C7_ZeroIffNoDenominator ==
    Succeeded => ((Pct = Frac(0, 1)) <=> (max_possible = 0))

(* C7, amended.  percentage is 0 whenever max_possible is 0, that is when  *)
(* no valid criterion was evaluated; when max_possible is not 0 it is 0    *)
(* exactly when total_score is 0.                                          *)
C7_ZeroIffNothingScored ==
    Succeeded =>
      /\ (Entries = <<>>) <=> (max_possible = 0)
      /\ max_possible = 0 => Pct = Frac(0, 1)
      /\ max_possible # 0 =>
            ((Pct = Frac(0, 1)) <=> (result.evaluation.total_score = 0))

\* A syntax error (score 0) divides 0 by 10.
C7_Witness ==
    /\ pc = "return_short_circuit"
    /\ max_possible = 10
    /\ result.evaluation.total_score = 0
    /\ Pct = Frac(0, 1)

(* C8.  Without the short-circuit, every requested registry criterion      *)
(* that has no analyzer gets score 5 and the placeholder message with its  *)
(* name, the five others get their analyzer's result, total_score is the   *)
(* sum of the scores of the evaluations made and max_score is 10 times     *)
(* their number.  The evaluations are: correctness once when requested,    *)
(* and one per occurrence of every other requested registry name.          *)
C8_Evaluations ==
    LET others == SelectSeq(RequestedValid, LAMBDA c : c # "correctness")
    IN  IF InSeq("correctness", RequestedValid)
        THEN <<"correctness">> \o others
        ELSE others

C8_OwnResult(name) ==
    CASE name = "correctness"    -> evaluate_syntactic_correctness(params.code)
      [] name = "documentation"  -> evaluate_documentation(params.code)
      [] name = "efficiency"     -> evaluate_efficiency(params.code)
      [] name = "readability"    -> evaluate_readability(params.code)
      [] name = "best_practices" -> evaluate_best_practices(params.code)
      [] OTHER ->
           [score |-> 5,
            message |-> "Basic " \o name
                        \o " check - detailed evaluation not implemented yet."]

RECURSIVE C8_SumScores(_)
C8_SumScores(names) ==
    IF names = <<>> THEN 0
    ELSE EntryOf(Head(names)).score + C8_SumScores(Tail(names))

C8_FullEvaluation ==
    pc = "return_full" =>
      /\ \A k \in 1..Len(RequestedValid) : HasKey(Entries, RequestedValid[k])
      /\ \A k \in 1..Len(Entries) :
            /\ Entries[k].score = C8_OwnResult(Entries[k].name).score
            /\ Entries[k].message = C8_OwnResult(Entries[k].name).message
            /\ Entries[k].name \in NamesWithoutAnalyzer => Entries[k].score = 5
      /\ result.evaluation.total_score = C8_SumScores(C8_Evaluations)
      /\ result.evaluation.max_score = 10 * Len(C8_Evaluations)

\* A criterion without analyzer between two with one.
C8_Witness ==
    /\ pc = "return_full"
    /\ params.criteria.list = <<"documentation", "security", "best_practices">>
    /\ EntryOf("security").score = 5
    /\ EntryOf("security").message
         = "Basic security check - detailed evaluation not implemented yet."
    /\ result.evaluation.max_score = 30

(* C9.  Without the short-circuit the summary is chosen by the percentage  *)
(* alone: high-quality from 80, solid from 60, needs-improvement from 40,  *)
(* significant-issues below (also when no criterion is valid); the         *)
(* short-circuit report always carries the syntax-errors summary.          *)
C9_Tier ==
    IF Pct.num >= 80 * Pct.den
    THEN "High-quality code that follows good practices in most areas."
    ELSE IF Pct.num >= 60 * Pct.den
    THEN "Solid code with some areas for improvement."
    ELSE IF Pct.num >= 40 * Pct.den
    THEN "Code needs improvement in several key areas."
    ELSE "Code has significant issues that should be addressed."

C9_SummaryByPercentage ==
    /\ pc = "return_full" => result.evaluation.summary = C9_Tier
    /\ pc = "return_short_circuit" =>
         result.evaluation.summary
           = "Code has syntax errors that need to be fixed before other aspects can be evaluated."

\* A percentage on a tier's edge.
C9_Witness ==
    /\ pc = "return_full"
    /\ Pct = Frac(60, 1)
    /\ result.evaluation.summary = "Solid code with some areas for improvement."

(* C10.  The readability score is the baseline 7 less deductions of at    *)
(* most 3 (long lines), 2 (short names), 2 (function names) and 2          *)
(* (indentation): it lies in -2..7, never reaches 8, and the message of    *)
(* the top tier never appears.                                             *)
C10_ReadabilityBelowTopTier ==
    (pc = "return_full" /\ HasKey(Entries, "readability")) =>
      LET score == EntryOf("readability").score
          r == params.code.read
          capped == (IF r.long_lines < 3 THEN r.long_lines ELSE 3)
                    + (IF r.short_vars < 2 THEN r.short_vars ELSE 2)
                    + (IF r.non_snake_case < 2 THEN r.non_snake_case ELSE 2)
      IN  /\ score \in (-2)..7
          /\ score <= 7 - capped
          /\ score >= 7 - capped - 2
          /\ EntryOf("readability").message
               # "Code is very readable with good naming and formatting."

\* The baseline kept on a text with nothing to deduct for.
C10_Witness ==
    /\ pc = "return_full"
    /\ HasKey(Entries, "readability")
    /\ EntryOf("readability").score = 7
    /\ params.code.read.long_lines = 0
    /\ EntryOf("readability").message
         = "Code has reasonable readability but could be improved. "

====
